---- MODULE Spec2Model ----
(***************************************************************************)
(* Vertex Animation Texture baker (vertex_animation.py).                   *)
(*                                                                         *)
(* The operator OBJECT_OT_ProcessAnimMeshes.execute is modelled as a       *)
(* sequential state machine: one action for the validation prologue of     *)
(* execute and one action for each helper function it then calls, in call  *)
(* order.  bpy.data (meshes, objects, images), the scene collection and    *)
(* the scene frame cursor are state; the selected objects and the scene    *)
(* settings are the inputs, drawn in Init.                                 *)
(*                                                                         *)
(* Numbers: coordinates are integers, the floats the code derives by       *)
(* division or by *0.5 are exact fractions <<numerator, denominator>>.     *)
(* Names are sequences of character codes, so that str.startswith is       *)
(* computed.  Python sequences are 0-based, TLA+ sequences 1-based: the    *)
(* vertex with index v is the element v+1 of a vertices sequence.          *)
(***************************************************************************)
EXTENDS Integers, Sequences, FiniteSets, TLC

(***************************************************************************)
(* Bounds of the explored inputs                                           *)
(***************************************************************************)
MaxObjects == 2
MaxVerts == 3
MaxFrameStart == 1
MaxFrameEnd == 3
MaxFrameStep == 2
MaxAnim == 1

(***************************************************************************)
(* Program constants                                                       *)
(***************************************************************************)
VertexLimit == 8192
FrameLimit == 8192
GroupLimit == 8192

allowed_modifiers ==
    << "ARMATURE", "CAST", "CURVE", "DISPLACE", "HOOK",
       "LAPLACIANDEFORM", "LATTICE", "MESH_DEFORM",
       "SHRINKWRAP", "SIMPLE_DEFORM", "SMOOTH",
       "CORRECTIVE_SMOOTH", "LAPLACIANSMOOTH",
       "SURFACE_DEFORM", "WARP", "WAVE",
       "CLOTH", "COLLISION" >>

\* the literal 'RGD' of g.name.startswith('RGD')
RGD == <<82, 71, 68>>

\* the vertical UV anchor 128/255
RowAnchor == <<128, 255>>

\* the scale 100.0 applied to every offset
OffsetScale == 100

(***************************************************************************)
(* Python built-ins                                                        *)
(***************************************************************************)
InSeq(x, s) == \E k \in 1..Len(s) : s[k] = x

SeqRange(s) == {s[k] : k \in 1..Len(s)}

startswith(name, prefix) ==
    /\ Len(name) >= Len(prefix)
    /\ \A k \in 1..Len(prefix) : name[k] = prefix[k]

\* len(range(a, b, s)) for s > 0
PyRangeLen(a, b, s) == IF b > a THEN (b - a + s - 1) \div s ELSE 0

\* range(a, b, s) for s > 0
PyRange(a, b, s) == [k \in 1..PyRangeLen(a, b, s) |-> a + (k - 1) * s]

\* reversed(s)
Reversed(s) == [k \in 1..Len(s) |-> s[Len(s) + 1 - k]]

\* list.remove(x): drops the first element equal to x
ListRemove(s, x) ==
    LET p == CHOOSE k \in 1..Len(s) : s[k] = x /\ \A j \in 1..(k - 1) : s[j] # x
    IN [k \in 1..(Len(s) - 1) |-> IF k < p THEN s[k] ELSE s[k + 1]]

\* the list built by extending an empty list with each of the chunks in
\* turn, every chunk having w elements
Extended(chunks, w) ==
    [j \in 1..(Len(chunks) * w) |-> chunks[((j - 1) \div w) + 1][((j - 1) % w) + 1]]

RECURSIVE SumSeq(_)
SumSeq(s) == IF s = <<>> THEN 0 ELSE s[1] + SumSeq(Tail(s))

RECURSIVE ConcatAll(_)
ConcatAll(ss) == IF ss = <<>> THEN <<>> ELSE ss[1] \o ConcatAll(Tail(ss))

\* the elements of s at their first occurrence, in order
\* (if x not in l: l.append(x))
FirstOccurrences(s) ==
    LET idx == SelectSeq([k \in 1..Len(s) |-> k],
                         LAMBDA k : \A j \in 1..(k - 1) : s[j] # s[k])
    IN [k \in 1..Len(idx) |-> s[idx[k]]]

(***************************************************************************)
(* State                                                                   *)
(***************************************************************************)
VARIABLES
    \* scene settings and selection (inputs)
    frame_start, frame_end, frame_step,
    reference_frame, detect_rigid,
    selected_objects,
    anim,
    \* host state the operator mutates
    frame_current,      \* the scene's current-frame cursor
    frame_sets,         \* history: arguments of scene.frame_set, in call order
    data_meshes,        \* bpy.data.meshes: live mesh data blocks by handle
    meshes_created,     \* history: number of mesh data blocks ever created
    copies,             \* history: frames at which me.copy() was taken
    group_builds,       \* history: frames at which the group map was built
    data_objects,       \* bpy.data.objects created by the operator
    collection_objects, \* objects linked to scene.collection
    data_images,        \* bpy.data.images created by the operator
    \* locals of execute
    pc, result,
    objects, ref_frame, vertex_count, frame_count, rigid_group_list,
    meshes, export_mesh_data, rigid_vert_groups, offsets, normals,
    \* inputs and outcome of the count-level run (SpecLimits)
    limits

inputs == <<frame_start, frame_end, frame_step, reference_frame, detect_rigid,
            selected_objects, anim>>

host == <<frame_current, frame_sets, data_meshes, meshes_created, copies,
          group_builds, data_objects, collection_objects, data_images>>

locals == <<objects, ref_frame, vertex_count, frame_count, rigid_group_list,
            meshes, export_mesh_data, rigid_vert_groups, offsets, normals>>

vars == <<inputs, host, locals, pc, result, limits>>

(***************************************************************************)
(* Scene                                                                   *)
(***************************************************************************)
\* frame_range(scene)
frame_range(start, end, step) == PyRange(start, end + step, step)

\* [ob for ob in context.selected_objects if ob.type == 'MESH']
MeshObjects(sel) == SelectSeq(sel, LAMBDA ob : ob.type = "MESH")

\* sum([len(ob.data.vertices) for ob in objects])
VertexCount(obs) == SumSeq([k \in 1..Len(obs) |-> obs[k].nverts])

\* vert_count when the loop over objects reaches object o
VertOffset(obs, o) == SumSeq([k \in 1..(o - 1) |-> obs[k].nverts])

\* the object (position in obs) holding the combined vertex gv
OwnerOf(obs, gv) ==
    CHOOSE o \in 1..Len(obs) :
        VertOffset(obs, o) <= gv /\ gv < VertOffset(obs, o) + obs[o].nverts

\* The external evaluation engine: world-space position and unit normal of
\* vertex v of the o-th object at frame f.  anim = 0 is a static scene.
EvalCo(a, o, v, f) == << v + o + a * f, a * f * (v + 1) - o, 2 * v + a * f * f >>

EvalNormal(a, o, v, f) ==
    IF (v + o + a * f) % 2 = 0 THEN <<0, 0, 1>> ELSE <<0, -1, 0>>

\* bm.from_mesh of every object in turn, then bm.to_mesh: the vertices of
\* the objects concatenated in object order
CombinedVertices(a, obs, f) ==
    [g \in 1..VertexCount(obs) |->
        LET o == OwnerOf(obs, g - 1)
            v == (g - 1) - VertOffset(obs, o)
        IN [co |-> EvalCo(a, o, v, f), normal |-> EvalNormal(a, o, v, f)]]

\* the loops of the objects concatenated, vertex indices shifted
CombinedLoops(obs) ==
    ConcatAll([o \in 1..Len(obs) |->
        [l \in 1..Len(obs[o].loops) |-> obs[o].loops[l] + VertOffset(obs, o)]])

(***************************************************************************)
(* Validation prologue of execute                                          *)
(***************************************************************************)
\* frame_count without the -1
FrameCount_NoDrop(start, end, step) == Len(frame_range(start, end, step))

\* frame_count = len(frange)-1
FrameCount(start, end, step) == Len(frame_range(start, end, step)) - 1

\* the fallback taken from the other end of the range
EffectiveRefFrame_ClampToEnd(ref, start, end, step) ==
    IF ~InSeq(ref, frame_range(start, end, step)) THEN end ELSE ref

\* if ref_frame not in frange: ref_frame = frange.start
EffectiveRefFrame(ref, start, end, step) ==
    IF ~InSeq(ref, frame_range(start, end, step)) THEN start ELSE ref

\* some modifier of some object is outside the allow-list
BadModifier(obs) ==
    \E o \in 1..Len(obs) : \E m \in 1..Len(obs[o].modifiers) :
        ~InSeq(obs[o].modifiers[m], allowed_modifiers)

\* rigid_group_list: the 'RGD' names of all objects, first discovery order
RigidGroupList(obs) ==
    FirstOccurrences(
        SelectSeq(ConcatAll([o \in 1..Len(obs) |-> obs[o].vertex_groups]),
                  LAMBDA name : startswith(name, RGD)))

\* the validator without its check for a missing 'RGD' group
ValidationOutcome_NoGroupCheck(rigid, badmod, vcount, fcount, ngroups) ==
    IF badmod THEN "CANCELLED"
    ELSE IF vcount > VertexLimit /\ ~rigid THEN "CANCELLED"
    ELSE IF fcount > FrameLimit THEN "CANCELLED"
    ELSE IF rigid /\ ngroups > GroupLimit THEN "CANCELLED"
    ELSE "PASS"

\* the validator with limits that exclude the limit itself
ValidationOutcome_Exclusive(rigid, badmod, vcount, fcount, ngroups) ==
    IF badmod THEN "CANCELLED"
    ELSE IF vcount >= VertexLimit /\ ~rigid THEN "CANCELLED"
    ELSE IF fcount >= FrameLimit THEN "CANCELLED"
    ELSE IF rigid /\ ngroups = 0 THEN "CANCELLED"
    ELSE IF rigid /\ ngroups >= GroupLimit THEN "CANCELLED"
    ELSE "PASS"

\* the early returns of execute, in source order
ValidationOutcome(rigid, badmod, vcount, fcount, ngroups) ==
    IF badmod THEN "CANCELLED"
    ELSE IF vcount > VertexLimit /\ ~rigid THEN "CANCELLED"
    ELSE IF fcount > FrameLimit THEN "CANCELLED"
    ELSE IF rigid /\ ngroups = 0 THEN "CANCELLED"
    ELSE IF rigid /\ ngroups > GroupLimit THEN "CANCELLED"
    ELSE "PASS"

\* vertex_count as passed on in texture_size: overwritten by the group
\* count in rigid mode
TextureColumns(rigid, vcount, ngroups) == IF rigid THEN ngroups ELSE vcount

\* execute, from its first line to the call of get_per_frame_mesh_data
Validate ==
    /\ pc = "validate"
    /\ LET obs == MeshObjects(selected_objects)
           vcount == VertexCount(obs)
           fcount == FrameCount(frame_start, frame_end, frame_step)
           groups == IF detect_rigid THEN RigidGroupList(obs) ELSE <<>>
           outcome == ValidationOutcome(detect_rigid, BadModifier(obs), vcount,
                                        fcount, Len(groups))
       IN IF outcome = "CANCELLED"
          THEN /\ result' = "CANCELLED"
               /\ pc' = "done"
               /\ UNCHANGED locals
          ELSE /\ result' = result
               /\ pc' = "sample"
               /\ objects' = obs
               /\ ref_frame' = EffectiveRefFrame(reference_frame, frame_start,
                                                 frame_end, frame_step)
               /\ vertex_count' = TextureColumns(detect_rigid, vcount, Len(groups))
               /\ frame_count' = fcount
               /\ rigid_group_list' = groups
               /\ UNCHANGED <<meshes, export_mesh_data, rigid_vert_groups,
                              offsets, normals>>
    /\ UNCHANGED <<inputs, host, limits>>

(***************************************************************************)
(* Frame Sampler and Topology Reducer: get_per_frame_mesh_data             *)
(***************************************************************************)
\* a mesh data block as bm.to_mesh leaves it
NewMesh(verts, lps) ==
    [vertices |-> verts, loops |-> lps, uv_layers |-> <<>>, users |-> 0]

\* the inner loop keeping the last match instead of breaking at the first
FirstMatch_LastWins(ob, v, rigid_groups) ==
    LET vg == ob.vgroups[v + 1]
        hits == {j \in 1..Len(vg) : InSeq(ob.vertex_groups[vg[j] + 1], rigid_groups)}
    IN IF hits = {} THEN <<>>
       ELSE ob.vertex_groups[vg[CHOOSE j \in hits : \A i \in hits : j >= i] + 1]

\* the name of the group the inner loop over v.groups records vertex v of
\* ob under: the first group, in the vertex's own order, whose name is in
\* rigid_groups (then break); <<>> when the loop ends without a match
FirstMatch(ob, v, rigid_groups) ==
    LET vg == ob.vgroups[v + 1]
        hits == {j \in 1..Len(vg) : InSeq(ob.vertex_groups[vg[j] + 1], rigid_groups)}
    IN IF hits = {} THEN <<>>
       ELSE ob.vertex_groups[vg[CHOOSE j \in hits : \A i \in hits : j <= i] + 1]

\* rigid_vert_groups: one entry per name of rigid_groups, in that order,
\* holding the combined indices v.index+vert_count in visiting order
BuildRigidVertGroups(obs, rigid_groups) ==
    LET all == [g \in 1..VertexCount(obs) |-> g - 1]
        Under(name, gv) ==
            LET o == OwnerOf(obs, gv)
            IN FirstMatch(obs[o], gv - VertOffset(obs, o), rigid_groups) = name
    IN [c \in 1..Len(rigid_groups) |->
           [name |-> rigid_groups[c],
            verts |-> SelectSeq(all, LAMBDA gv : Under(rigid_groups[c], gv))]]

GetPerFrameMeshData ==
    /\ pc = "sample"
    /\ LET frange == frame_range(frame_start, frame_end, frame_step)
           S == Len(frange)
           \* positions of the frames equal to ref_frame (range values are
           \* distinct, so there is at most one)
           refpos == SelectSeq([k \in 1..S |-> k], LAMBDA k : frange[k] = ref_frame)
           copied == refpos # <<>>
           p == IF copied THEN refpos[Len(refpos)] ELSE S + 1
           \* handles in creation order: the copy follows its snapshot
           SnapHandle(k) == IF k > p THEN k + 1 ELSE k
           snapshot(k) == NewMesh(CombinedVertices(anim, objects, frange[k]),
                                  CombinedLoops(objects))
           all == [k \in 1..S |-> SnapHandle(k)]
       IN /\ frame_sets' = frame_sets \o frange
          /\ frame_current' = frange[S]
          /\ meshes_created' = meshes_created + S * Len(objects) + S + Len(refpos)
          /\ copies' = [j \in 1..Len(refpos) |-> frange[refpos[j]]]
          /\ group_builds' = IF detect_rigid THEN copies' ELSE <<>>
          /\ data_meshes' =
                [h \in 1..(S + (IF copied THEN 1 ELSE 0)) |->
                    IF h <= p THEN snapshot(h)
                    ELSE IF h = p + 1 THEN snapshot(p)
                    ELSE snapshot(h - 1)]
          /\ meshes' = ListRemove(all, all[Len(all)])
          /\ rigid_vert_groups' =
                IF detect_rigid /\ copied
                THEN BuildRigidVertGroups(objects, rigid_group_list)
                ELSE <<>>
          /\ IF copied
             THEN /\ export_mesh_data' = p + 1
                  /\ pc' = "export"
                  /\ result' = result
             ELSE \* export_mesh was never bound
                  /\ export_mesh_data' = export_mesh_data
                  /\ pc' = "done"
                  /\ result' = "EXCEPTION"
    /\ UNCHANGED <<inputs, data_objects, collection_objects, data_images, limits>>
    /\ UNCHANGED <<objects, ref_frame, vertex_count, frame_count,
                   rigid_group_list, offsets, normals>>

(***************************************************************************)
(* Reference/Export Mesh Builder: create_export_mesh_object                *)
(***************************************************************************)
\* the UV of a loop of a freshly created layer
ZeroUV == << <<0, 1>>, <<0, 1>> >>

\* ((index + 0.5)/n, 128/255)
ColumnUV(index, n) == << <<2 * index + 1, 2 * n>>, RowAnchor >>

\* the (vi, index) pairs of the rigid branch, in assignment order
RigidAssignments(rvg) ==
    ConcatAll([c \in 1..Len(rvg) |->
        [m \in 1..Len(rvg[c].verts) |-> <<rvg[c].verts[m], c - 1>>]])

\* the assignments made before uv_layer.data[vi] first raises IndexError
AppliedAssignments(assigns, nloops) ==
    LET bad == {k \in 1..Len(assigns) : assigns[k][1] >= nloops}
    IN IF bad = {} THEN assigns
       ELSE SubSeq(assigns, 1, (CHOOSE k \in bad : \A i \in bad : k <= i) - 1)

\* uv_layer.data after the rigid branch: uv_layer.data[vi].uv = ...
RigidUVData(me, rvg) ==
    LET applied == AppliedAssignments(RigidAssignments(rvg), Len(me.loops))
    IN [l \in 1..Len(me.loops) |->
          LET hits == {k \in 1..Len(applied) : applied[k][1] = l - 1}
          IN IF hits = {} THEN ZeroUV
             ELSE ColumnUV(applied[CHOOSE k \in hits : \A i \in hits : k >= i][2],
                           Len(rvg))]

\* uv_layer.data after the non-rigid branch
LoopUVData(me) ==
    [l \in 1..Len(me.loops) |-> ColumnUV(me.loops[l], Len(me.vertices))]

\* while len(me.uv_layers) < 2: me.uv_layers.new(); the second is renamed
\* and written
WithUVLayers(me, uvdata) ==
    LET fresh == [name |-> "UVMap", data |-> [l \in 1..Len(me.loops) |-> ZeroUV]]
        first == IF Len(me.uv_layers) >= 1 THEN me.uv_layers[1] ELSE fresh
    IN [me EXCEPT !.uv_layers =
           <<first, [name |-> "vertex_anim", data |-> uvdata]>>
           \o SubSeq(me.uv_layers, 3, Len(me.uv_layers))]

CreateExportMeshObject ==
    /\ pc = "export"
    /\ LET me == data_meshes[export_mesh_data]
           assigns == RigidAssignments(rigid_vert_groups)
           raised == detect_rigid
                     /\ \E k \in 1..Len(assigns) : assigns[k][1] >= Len(me.loops)
           uvdata == IF detect_rigid THEN RigidUVData(me, rigid_vert_groups)
                     ELSE LoopUVData(me)
           withuv == WithUVLayers(me, uvdata)
       IN IF raised
          THEN /\ data_meshes' = [data_meshes EXCEPT ![export_mesh_data] = withuv]
               /\ pc' = "done"
               /\ result' = "EXCEPTION"
               /\ UNCHANGED <<data_objects, collection_objects>>
          ELSE /\ data_meshes' = [data_meshes EXCEPT ![export_mesh_data] =
                                     [withuv EXCEPT !.users = @ + 1]]
               /\ data_objects' = Append(data_objects,
                     [name |-> "export_mesh", data |-> export_mesh_data])
               /\ collection_objects' = Append(collection_objects,
                                               Len(data_objects) + 1)
               /\ pc' = "extract"
               /\ result' = result
    /\ UNCHANGED <<inputs, locals, limits>>
    /\ UNCHANGED <<frame_current, frame_sets, meshes_created, copies,
                   group_builds, data_images>>

(***************************************************************************)
(* Vertex Data Extractor: get_vertex_data                                  *)
(***************************************************************************)
\* offset = (co - refco)*100.0; the tuple extended is (x, -y, z, 1)
OffsetTuple(co, refco) ==
    LET x == (co[1] - refco[1]) * OffsetScale
        y == (co[2] - refco[2]) * OffsetScale
        z == (co[3] - refco[3]) * OffsetScale
    IN <<x, -y, z, 1>>

\* ((x + 1) * 0.5, (-y + 1) * 0.5, (z + 1) * 0.5, 1) as fractions
NormalTuple(n) == << <<n[1] + 1, 2>>, <<(-n[2]) + 1, 2>>, <<n[3] + 1, 2>>, <<1, 1>> >>

\* what one pass of the outer loop extends offsets with
OffsetRow(me, refmesh, rigid, rvg) ==
    IF rigid
    THEN Extended([c \in 1..Len(rvg) |->
                     LET vi == rvg[c].verts[1]
                     IN OffsetTuple(me.vertices[vi + 1].co,
                                    refmesh.vertices[vi + 1].co)], 4)
    ELSE Extended([g \in 1..Len(me.vertices) |->
                     OffsetTuple(me.vertices[g].co, refmesh.vertices[g].co)], 4)

\* what one pass of the outer loop extends normals with
NormalRow(me, rigid) ==
    IF rigid THEN <<>>
    ELSE Extended([g \in 1..Len(me.vertices) |-> NormalTuple(me.vertices[g].normal)], 4)

\* the snapshots visited first-to-last
ExtractionOrder_Forward(ms) == ms

\* the order the outer loop visits the snapshots in
ExtractionOrder(ms) == Reversed(ms)

GetVertexData ==
    /\ pc = "extract"
    /\ LET refmesh == data_meshes[export_mesh_data]
           order == ExtractionOrder(meshes)
           \* i[0] of an empty group raises IndexError in the first pass
           raised == /\ detect_rigid
                     /\ Len(order) > 0
                     /\ \E c \in 1..Len(rigid_vert_groups) :
                            rigid_vert_groups[c].verts = <<>>
           cols == IF detect_rigid THEN Len(rigid_vert_groups)
                   ELSE Len(refmesh.vertices)
           \* if not me.users: data.meshes.remove(me)
           removed == {h \in SeqRange(meshes) : data_meshes[h].users = 0}
       IN IF raised
          THEN /\ pc' = "done"
               /\ result' = "EXCEPTION"
               /\ UNCHANGED <<offsets, normals, data_meshes>>
          ELSE /\ offsets' = Extended(
                     [r \in 1..Len(order) |->
                        OffsetRow(data_meshes[order[r]], refmesh, detect_rigid,
                                  rigid_vert_groups)], cols * 4)
               /\ normals' =
                     IF detect_rigid THEN <<>>
                     ELSE Extended(
                        [r \in 1..Len(order) |->
                           NormalRow(data_meshes[order[r]], detect_rigid)], cols * 4)
               /\ data_meshes' = [h \in (DOMAIN data_meshes) \ removed |-> data_meshes[h]]
               /\ pc' = "bake"
               /\ result' = result
    /\ UNCHANGED <<inputs, limits>>
    /\ UNCHANGED <<frame_current, frame_sets, meshes_created, copies, group_builds,
                   data_objects, collection_objects, data_images>>
    /\ UNCHANGED <<objects, ref_frame, vertex_count, frame_count, rigid_group_list,
                   meshes, export_mesh_data, rigid_vert_groups>>

(***************************************************************************)
(* Texture Encoder: bake_vertex_data, and the return of execute            *)
(***************************************************************************)
\* texture_size = vertex_count, frame_count
TextureSize(vcount, fcount) == <<vcount, fcount>>

\* data.images.new(name, width, height, alpha, float_buffer) and the
\* assignment of its pixels
NewImage(name, size, float_buffer, pixels) ==
    [name |-> name, width |-> size[1], height |-> size[2], alpha |-> TRUE,
     float_buffer |-> float_buffer, pixels |-> pixels]

BakeVertexData ==
    /\ pc = "bake"
    /\ LET size == TextureSize(vertex_count, frame_count)
       IN data_images' = data_images
             \o <<NewImage("offsets", size, TRUE, offsets)>>
             \o (IF ~detect_rigid THEN <<NewImage("normals", size, FALSE, normals)>>
                 ELSE <<>>)
    /\ pc' = "done"
    /\ result' = "FINISHED"
    /\ UNCHANGED <<inputs, locals, limits>>
    /\ UNCHANGED <<frame_current, frame_sets, data_meshes, meshes_created, copies,
                   group_builds, data_objects, collection_objects>>

\* The image storage is outside the source: it may refuse an image with an
\* empty side, in which case images.new raises and nothing is created.
BakeVertexDataRefused ==
    /\ pc = "bake"
    /\ LET size == TextureSize(vertex_count, frame_count)
       IN size[1] < 1 \/ size[2] < 1
    /\ pc' = "done"
    /\ result' = "EXCEPTION"
    /\ UNCHANGED <<inputs, host, locals, limits>>

(***************************************************************************)
(* The validation of execute on counts alone                               *)
(***************************************************************************)
\* execute up to its last early return, given the counts it computes
LimitsValidate ==
    /\ limits.pc = "validate"
    /\ LET fcount == FrameCount(limits.start, limits.end, limits.step)
           outcome == ValidationOutcome(limits.rigid, limits.badmod, limits.nverts,
                                        fcount, limits.ngroups)
       IN limits' = [limits EXCEPT
              !.pc = IF outcome = "CANCELLED" THEN "done" ELSE "bake",
              !.result = IF outcome = "CANCELLED" THEN "CANCELLED" ELSE @,
              !.vertex_count = TextureColumns(limits.rigid, limits.nverts, limits.ngroups),
              !.frame_count = fcount]
    /\ UNCHANGED <<inputs, host, locals, pc, result>>

\* a run that reaches bake_vertex_data: the sizes it asks images for
LimitsBake ==
    /\ limits.pc = "bake"
    /\ LET size == TextureSize(limits.vertex_count, limits.frame_count)
       IN limits' = [limits EXCEPT
              !.pc = "done",
              !.result = "FINISHED",
              !.images = <<size>> \o (IF ~limits.rigid THEN <<size>> ELSE <<>>)]
    /\ UNCHANGED <<inputs, host, locals, pc, result>>

(***************************************************************************)
(* Inputs                                                                  *)
(***************************************************************************)
\* "RGD_a", "RGD_b", "arm", "RG"
N_RGD_a == <<82, 71, 68, 95, 97>>
N_RGD_b == <<82, 71, 68, 95, 98>>
N_arm == <<97, 114, 109>>
N_RG == <<82, 71>>

Object(type, n, lps, mods, groups, vg) ==
    [type |-> type, nverts |-> n, loops |-> lps, modifiers |-> mods,
     vertex_groups |-> groups, vgroups |-> vg]

\* one face over all n vertices, in vertex order and in reverse order
Ngon(n) == [l \in 1..n |-> l - 1]

RevNgon(n) == [l \in 1..n |-> n - l]

LoopPatterns(n) ==
    IF n < 3 THEN {<<>>}
    ELSE {<<>>, Ngon(n), RevNgon(n), Ngon(n) \o RevNgon(n)}

GroupLists ==
    {<<>>, <<N_RGD_a>>, <<N_arm, N_RGD_a>>, <<N_RGD_a, N_RGD_b>>, <<N_RG, N_RGD_b>>}

\* the possible v.groups of a vertex of an object with k groups: each group
\* at most once, in any order
GroupOrders(k) ==
    {s \in UNION {[1..m -> 0..(k - 1)] : m \in 0..k} :
        \A i, j \in 1..Len(s) : i # j => s[i] # s[j]}

\* a small library of objects for scenes of several objects
O_plain == Object("MESH", 1, <<>>, <<>>, <<>>, << <<>> >>)
O_tri == Object("MESH", 3, <<2, 1, 0>>, <<"ARMATURE">>, <<N_RGD_a>>,
                << <<0>>, <<0>>, <<>> >>)
O_two == Object("MESH", 2, <<>>, <<>>, <<N_RGD_b, N_RGD_a>>, << <<1, 0>>, <<0>> >>)
O_mix == Object("MESH", 2, <<>>, <<"CLOTH", "WAVE">>, <<N_arm, N_RGD_b>>,
                << <<0, 1>>, <<0>> >>)
O_unassigned == Object("MESH", 1, <<>>, <<>>, <<N_RGD_a>>, << <<>> >>)
O_subsurf == Object("MESH", 2, <<>>, <<"ARMATURE", "SUBSURF">>, <<N_RGD_a>>,
                    << <<0>>, <<0>> >>)
O_empty == Object("EMPTY", 0, <<>>, <<>>, <<>>, <<>>)

LibraryObjects == {O_plain, O_tri, O_two, O_mix, O_unassigned, O_subsurf, O_empty}

FrameSettings ==
    {s \in [start : 0..MaxFrameStart, end : 0..MaxFrameEnd, step : 1..MaxFrameStep] :
        s.start <= s.end}

Settings(fs, ref, rigid, a) ==
    /\ frame_start = fs.start
    /\ frame_end = fs.end
    /\ frame_step = fs.step
    /\ reference_frame = ref
    /\ detect_rigid = rigid
    /\ anim = a

\* one library object, every frame setting
InitFrames ==
    /\ selected_objects \in {<<ob>> : ob \in LibraryObjects}
    /\ \E fs \in FrameSettings, ref \in (-1)..(MaxFrameEnd + MaxFrameStep),
          rigid \in BOOLEAN, a \in 0..MaxAnim :
          Settings(fs, ref, rigid, a)

\* one object of every shape, rigid mode
InitShapes ==
    /\ \E n \in 1..MaxVerts : \E lps \in LoopPatterns(n) : \E groups \in GroupLists :
          \E vg \in [1..n -> GroupOrders(Len(groups))] :
             selected_objects = <<Object("MESH", n, lps, <<>>, groups, vg)>>
    /\ \E end \in 1..2, ref \in 0..1 :
          Settings([start |-> 0, end |-> end, step |-> 1], ref, TRUE, MaxAnim)

\* several library objects
InitSelections ==
    /\ selected_objects \in UNION {[1..m -> LibraryObjects] : m \in 2..MaxObjects}
    /\ \E ref \in {0, 1, 2, 7}, rigid \in BOOLEAN :
          Settings([start |-> 0, end |-> 2, step |-> 1], ref, rigid, MaxAnim)

\* nothing selected
InitNothingSelected ==
    /\ selected_objects = <<>>
    /\ \E fs \in FrameSettings, rigid \in BOOLEAN : Settings(fs, 0, rigid, 0)

\* scenes at the limits of the validator: one object of VertexLimit or
\* VertexLimit + 1 vertices (one triangle, one assigned 'RGD' group), and a
\* frame range one frame too long
InitLarge ==
    \/ /\ \E n \in {VertexLimit, VertexLimit + 1} :
             selected_objects =
                <<Object("MESH", n, <<0, 1, 2>>, <<>>, <<N_RGD_a>>,
                         [v \in 1..n |-> IF v = 1 THEN <<0>> ELSE <<>>])>>
       /\ \E rigid \in BOOLEAN :
             Settings([start |-> 0, end |-> 1, step |-> 1], 0, rigid, MaxAnim)
    \/ /\ selected_objects = <<O_plain>>
       /\ \E rigid \in BOOLEAN :
             Settings([start |-> 0, end |-> FrameLimit + 1, step |-> 1], 0, rigid, MaxAnim)

InitHost ==
    /\ frame_current = 1
    /\ frame_sets = <<>>
    /\ data_meshes = <<>>
    /\ meshes_created = 0
    /\ copies = <<>>
    /\ group_builds = <<>>
    /\ data_objects = <<>>
    /\ collection_objects = <<>>
    /\ data_images = <<>>

InitLocals ==
    /\ objects = <<>>
    /\ ref_frame = 0
    /\ vertex_count = 0
    /\ frame_count = 0
    /\ rigid_group_list = <<>>
    /\ meshes = <<>>
    /\ export_mesh_data = 0
    /\ rigid_vert_groups = <<>>
    /\ offsets = <<>>
    /\ normals = <<>>

LimitsIdle ==
    [pc |-> "idle", result |-> "NONE", rigid |-> FALSE, badmod |-> FALSE,
     nverts |-> 0, ngroups |-> 0, start |-> 0, end |-> 0, step |-> 1,
     vertex_count |-> 0, frame_count |-> 0, images |-> <<>>]

Init ==
    /\ InitHost
    /\ InitLocals
    /\ pc = "validate"
    /\ result = "NONE"
    /\ limits = LimitsIdle
    /\ (InitShapes \/ InitSelections \/ InitFrames \/ InitLarge \/ InitNothingSelected)

Next ==
    \/ Validate
    \/ GetPerFrameMeshData
    \/ CreateExportMeshObject
    \/ GetVertexData
    \/ BakeVertexData
    \/ BakeVertexDataRefused

Spec == Init /\ [][Next]_vars

\* counts around the three limits
LimitCounts == {0, 1, 2, VertexLimit - 1, VertexLimit, VertexLimit + 1, 9000}

LimitFrames ==
    {[start |-> 0, end |-> 0, step |-> 1], [start |-> 1, end |-> MaxFrameEnd, step |-> 1],
     [start |-> 0, end |-> FrameLimit - 1, step |-> 1],
     [start |-> 0, end |-> FrameLimit, step |-> 1],
     [start |-> 0, end |-> FrameLimit + 1, step |-> 1],
     [start |-> 1, end |-> FrameLimit + 1, step |-> 1],
     [start |-> 0, end |-> 2 * FrameLimit, step |-> 2],
     [start |-> 0, end |-> 2 * FrameLimit + 1, step |-> 2]}

InitLimits ==
    /\ InitHost
    /\ InitLocals
    /\ pc = "idle"
    /\ result = "NONE"
    /\ selected_objects = <<>>
    /\ Settings([start |-> 0, end |-> 0, step |-> 1], 0, FALSE, 0)
    /\ \E rigid \in BOOLEAN, badmod \in BOOLEAN, nverts \in LimitCounts,
          ngroups \in LimitCounts, fs \in LimitFrames :
          limits = [LimitsIdle EXCEPT !.pc = "validate", !.rigid = rigid,
                       !.badmod = badmod, !.nverts = nverts, !.ngroups = ngroups,
                       !.start = fs.start, !.end = fs.end, !.step = fs.step]

NextLimits ==
    \/ LimitsValidate
    \/ LimitsBake

SpecLimits == InitLimits /\ [][NextLimits]_vars

(***************************************************************************)
(* Properties                                                              *)
(***************************************************************************)
\* the selected mesh objects, their vertices and their 'RGD' group names
SelectedMeshes == MeshObjects(selected_objects)

TotalVerts == SumSeq([o \in 1..Len(SelectedMeshes) |-> SelectedMeshes[o].nverts])

AllGroupNames == ConcatAll([o \in 1..Len(SelectedMeshes) |-> SelectedMeshes[o].vertex_groups])

RGDNames == {name \in SeqRange(AllGroupNames) : startswith(name, RGD)}

\* the sampler has run
Sampled == pc \in {"export", "extract", "bake"} \/ (pc = "done" /\ result # "CANCELLED")

\* the export mesh object exists
Exported == data_objects # <<>>

\* nothing of the host state has been touched
Untouched ==
    /\ frame_sets = <<>>
    /\ frame_current = 1
    /\ meshes_created = 0
    /\ DOMAIN data_meshes = {}
    /\ data_objects = <<>>
    /\ collection_objects = <<>>
    /\ data_images = <<>>

\* one of the five rejections of the validator applies to the scene
SceneRejected ==
    \/ \E o \in 1..Len(SelectedMeshes) :
          \E m \in SeqRange(SelectedMeshes[o].modifiers) :
             m \notin SeqRange(allowed_modifiers)
    \/ ~detect_rigid /\ TotalVerts > 8192
    \/ Len(frame_range(frame_start, frame_end, frame_step)) - 1 > 8192
    \/ detect_rigid /\ RGDNames = {}
    \/ detect_rigid /\ Cardinality(RGDNames) > 8192

\* the e-th RGBA element of a flat pixel sequence (e from 0)
Pixel(px, e) == <<px[4 * e + 1], px[4 * e + 2], px[4 * e + 3], px[4 * e + 4]>>

\* equality of fractions
FracEq(a, b) == a[1] * b[2] = b[1] * a[2]

UVEq(uv, u, v) == FracEq(uv[1], u) /\ FracEq(uv[2], v)

\* C1: a run rejected in validation returns CANCELLED and has mutated
\* nothing: the frame cursor was not set, no mesh, object or image was
\* created and nothing was linked.
C1_RejectedRunMutatesNothing ==
    /\ (pc = "done" /\ SceneRejected) => result = "CANCELLED"
    /\ result = "CANCELLED" => (SceneRejected /\ Untouched)

C1_Witness ==
    /\ result = "CANCELLED"
    /\ ~detect_rigid
    /\ TotalVerts > 8192
    /\ \A o \in 1..Len(SelectedMeshes) : SelectedMeshes[o].modifiers = <<>>

\* C2: a run that returns FINISHED has created the offsets image with
\* width = columns (combined vertex count, or number of distinct 'RGD'
\* names in rigid mode) and height = rows (sampled frames minus one), its
\* pixel sequence has columns * rows * 4 elements, and so has the normals
\* image in non-rigid mode.
C2_ImageDimensions ==
    result = "FINISHED" =>
        LET columns == IF detect_rigid THEN Cardinality(RGDNames) ELSE TotalVerts
            rows == Len(frame_sets) - 1
            Sized(img) == /\ img.width = columns
                          /\ img.height = rows
                          /\ Len(img.pixels) = columns * rows * 4
        IN /\ Len(data_images) = IF detect_rigid THEN 1 ELSE 2
           /\ data_images[1].name = "offsets"
           /\ Sized(data_images[1])
           /\ ~detect_rigid => (data_images[2].name = "normals" /\ Sized(data_images[2]))

C2_Witness ==
    /\ result = "FINISHED"
    /\ detect_rigid
    /\ Cardinality(RGDNames) = 2
    /\ TotalVerts > 2
    /\ Len(frame_sets) = 3

\* C3: the sampler sets the scene frame to exactly start, start+step, ...
\* within [start, end]: floor((end-start)/step) + 1 frames, none above end.
C3_SampledFramesWithinRange ==
    Sampled =>
        /\ frame_sets = [k \in 1..((frame_end - frame_start) \div frame_step + 1) |->
                            frame_start + (k - 1) * frame_step]
        /\ \A k \in 1..Len(frame_sets) : frame_sets[k] <= frame_end

\* the selected object holding combined vertex gv, and gv's index in it
HolderOf(gv) ==
    CHOOSE k \in 1..Len(SelectedMeshes) :
        /\ SumSeq([j \in 1..(k - 1) |-> SelectedMeshes[j].nverts]) <= gv
        /\ gv < SumSeq([j \in 1..k |-> SelectedMeshes[j].nverts])

IndexIn(gv) == gv - SumSeq([j \in 1..(HolderOf(gv) - 1) |-> SelectedMeshes[j].nverts])

\* the evaluated position of combined vertex gv at frame f
PositionAt(gv, f) == EvalCo(anim, HolderOf(gv), IndexIn(gv), f)

\* the offset tuple the snapshot of frame f gives column c (from 0)
ExpectedOffset(f, c) ==
    LET gv == IF detect_rigid THEN rigid_vert_groups[c + 1].verts[1] ELSE c
        at == PositionAt(gv, f)
        ref == PositionAt(gv, ref_frame)
    IN <<(at[1] - ref[1]) * 100, -((at[2] - ref[2]) * 100), (at[3] - ref[3]) * 100, 1>>

\* C4: with S sampled frames, only the last one is dropped; row r of the
\* output (r in 0..S-2) holds the data of the snapshot with sampling index
\* S-2-r, at element index row*columns + column.
C4_RowOrder ==
    result = "FINISHED" =>
        LET S == Len(frame_sets)
            cols == data_images[1].width
            px == data_images[1].pixels
        IN /\ Len(px) = (S - 1) * cols * 4
           /\ \A r \in 0..(S - 2) : \A c \in 0..(cols - 1) :
                 Pixel(px, r * cols + c) = ExpectedOffset(frame_sets[(S - 2 - r) + 1], c)

C4_Witness ==
    /\ result = "FINISHED"
    /\ Len(frame_sets) >= 3
    /\ data_images[1].width >= 2
    /\ Pixel(data_images[1].pixels, 0) # Pixel(data_images[1].pixels, data_images[1].width)

\* C5: the effective reference frame is the configured one when it is a
\* sampled frame and the first frame otherwise; it is a sampled frame, one
\* export mesh is taken, from the snapshot of that frame, and when that
\* frame is not the dropped last one its row holds (0,0,0,1) in every column.
C5_ReferenceFrame ==
    Sampled =>
        LET S == Len(frame_sets)
        IN /\ ref_frame = IF reference_frame \in SeqRange(frame_sets)
                          THEN reference_frame ELSE frame_start
           /\ ref_frame \in SeqRange(frame_sets)
           /\ copies = <<ref_frame>>
           /\ export_mesh_data \in DOMAIN data_meshes
           /\ \A g \in 1..TotalVerts :
                 data_meshes[export_mesh_data].vertices[g].co = PositionAt(g - 1, ref_frame)
           /\ Len(data_meshes[export_mesh_data].vertices) = TotalVerts
           /\ (result = "FINISHED" /\ ref_frame # frame_sets[S]) =>
                 LET k == CHOOSE i \in 1..S : frame_sets[i] = ref_frame
                     cols == data_images[1].width
                 IN \A c \in 0..(cols - 1) :
                       Pixel(data_images[1].pixels, (S - 1 - k) * cols + c) = <<0, 0, 0, 1>>

C5_Witness ==
    /\ result = "FINISHED"
    /\ anim = 1
    /\ reference_frame \notin SeqRange(frame_sets)
    /\ Len(frame_sets) >= 3
    /\ data_images[1].width >= 2
    /\ \E e \in 0..(Len(data_images[1].pixels) \div 4 - 1) :
          Pixel(data_images[1].pixels, e) # <<0, 0, 0, 1>>

\* C6: in rigid mode every group of the map built at the reference frame
\* (one per distinct 'RGD' name) is non-empty and its members are below the
\* combined vertex count.
C6_GroupsNonEmpty ==
    (detect_rigid /\ Sampled) =>
        /\ Len(rigid_vert_groups) = Cardinality(RGDNames)
        /\ \A c \in 1..Len(rigid_vert_groups) :
              /\ rigid_vert_groups[c].verts # <<>>
              /\ \A m \in 1..Len(rigid_vert_groups[c].verts) :
                    /\ rigid_vert_groups[c].verts[m] >= 0
                    /\ rigid_vert_groups[c].verts[m] < TotalVerts

\* C7: the column in the 'vertex_anim' UV of every loop of the export mesh
\* is the extraction column of the loop's vertex (non-rigid) or of the group
\* owning the loop's vertex (rigid), with 128/255 as second coordinate.
C7_UVColumnsAgree ==
    Exported =>
        LET me == data_meshes[export_mesh_data]
            uv == me.uv_layers[2]
        IN /\ uv.name = "vertex_anim"
           /\ \A l \in 1..Len(me.loops) :
                 IF detect_rigid
                 THEN \A c \in 1..Len(rigid_vert_groups) :
                         me.loops[l] \in SeqRange(rigid_vert_groups[c].verts) =>
                            UVEq(uv.data[l], <<2 * (c - 1) + 1, 2 * Len(rigid_vert_groups)>>,
                                 <<128, 255>>)
                 ELSE UVEq(uv.data[l], <<2 * me.loops[l] + 1, 2 * TotalVerts>>, <<128, 255>>)

\* C8: the images a run asks the encoder for are at most 8192 wide and
\* high; a run is rejected exactly when a modifier is not allowed, or rigid
\* mode is off and there are more than 8192 vertices, or there are more than
\* 8192 rows (sampled frames minus one), or rigid mode is on with no group
\* or more than 8192 groups.  8192 of each is accepted; in rigid mode the
\* vertex count does not matter.
C8_TextureLimits ==
    limits.pc = "done" =>
        LET sampled == Len(frame_range(limits.start, limits.end, limits.step))
            rejected ==
                \/ limits.badmod
                \/ ~limits.rigid /\ limits.nverts > 8192
                \/ sampled - 1 > 8192
                \/ limits.rigid /\ limits.ngroups = 0
                \/ limits.rigid /\ limits.ngroups > 8192
        IN /\ limits.result = (IF rejected THEN "CANCELLED" ELSE "FINISHED")
           /\ rejected => limits.images = <<>>
           /\ ~rejected =>
                 /\ limits.images # <<>>
                 /\ \A i \in 1..Len(limits.images) :
                       /\ limits.images[i][1] =
                             (IF limits.rigid THEN limits.ngroups ELSE limits.nverts)
                       /\ limits.images[i][2] = sampled - 1
                       /\ limits.images[i][1] <= 8192
                       /\ limits.images[i][2] <= 8192

C8_Witness ==
    /\ limits.result = "FINISHED"
    /\ ~limits.rigid
    /\ limits.nverts = 8192
    /\ limits.images[1] = <<8192, 8192>>

\* the position in AllGroupNames at which a name is first met
Discovery(name) ==
    CHOOSE i \in 1..Len(AllGroupNames) :
        AllGroupNames[i] = name /\ \A j \in 1..(i - 1) : AllGroupNames[j] # name

\* the positions, in the group order of vertex v of object o, of the groups
\* with an 'RGD' name
RGDPositions(o, v) ==
    {j \in 1..Len(SelectedMeshes[o].vgroups[v + 1]) :
        startswith(SelectedMeshes[o].vertex_groups[SelectedMeshes[o].vgroups[v + 1][j] + 1], RGD)}

\* C9: in rigid mode the group map is built once, at the effective
\* reference frame; a vertex is recorded once, under the first 'RGD' group
\* of its own group order and under no other, with the index local index +
\* vertex counts of the preceding objects; the groups are pairwise disjoint
\* and the columns follow the order in which the names are first met.
C9_GroupMap ==
    (detect_rigid /\ Sampled) =>
        LET rvg == rigid_vert_groups
        IN /\ group_builds = <<ref_frame>>
           /\ Len(rvg) = Cardinality(RGDNames)
           /\ \A c \in 1..Len(rvg) : rvg[c].name \in RGDNames
           /\ \A a, b \in 1..Len(rvg) :
                 a < b => Discovery(rvg[a].name) < Discovery(rvg[b].name)
           /\ \A c \in 1..Len(rvg) : \A i, j \in 1..Len(rvg[c].verts) :
                 i # j => rvg[c].verts[i] # rvg[c].verts[j]
           /\ \A a, b \in 1..Len(rvg) :
                 a # b => SeqRange(rvg[a].verts) \cap SeqRange(rvg[b].verts) = {}
           /\ \A o \in 1..Len(SelectedMeshes) : \A v \in 0..(SelectedMeshes[o].nverts - 1) :
                 LET gv == v + SumSeq([j \in 1..(o - 1) |-> SelectedMeshes[j].nverts])
                     pos == RGDPositions(o, v)
                     first == CHOOSE j \in pos : \A i \in pos : j <= i
                     ob == SelectedMeshes[o]
                 IN \A c \in 1..Len(rvg) :
                       gv \in SeqRange(rvg[c].verts) <=>
                          (pos # {} /\ rvg[c].name = ob.vertex_groups[ob.vgroups[v + 1][first] + 1])

C9_Witness ==
    /\ detect_rigid
    /\ Sampled
    /\ Len(SelectedMeshes) = 2
    /\ Cardinality(RGDNames) = 2
    /\ \E v \in 0..(SelectedMeshes[2].nverts - 1) : Cardinality(RGDPositions(2, v)) = 2
    /\ \E c \in 1..Len(rigid_vert_groups) :
          \E i \in 1..Len(rigid_vert_groups[c].verts) :
             rigid_vert_groups[c].verts[i] >= SelectedMeshes[1].nverts

\* C10: when a run returns FINISHED the only mesh data block of the
\* pipeline still in the mesh container is the export mesh; every frame
\* snapshot, the dropped last one included, has been removed.
C10_SnapshotsReleased ==
    result = "FINISHED" => DOMAIN data_meshes = {export_mesh_data}

====
